---- MODULE Spec2Model ----
(***************************************************************************)
(* Control loop of the weather display (offscreen-buffer variant):         *)
(* loop() and handleButtons() with the globals they read and write.        *)
(*                                                                         *)
(* One iteration of loop() is the chain of actions                         *)
(*   [ConnectToWiFi -> ReconnectWait* -> ReconnectDone ->] Iterate         *)
(*   [-> FetchWait* -> FetchReturn]                                        *)
(* and pc names the statement the loop is at.  Time (millis()) passes only *)
(* where the loop blocks: in delay(50), in the delay(500) of a reconnect   *)
(* attempt and in the HTTP request of the fetch.  Everything else, drawing *)
(* included, is taken to be instantaneous, so every millis() call of one   *)
(* action reads `now`.  The physical buttons and the WiFi link change      *)
(* between two actions of the loop.                                        *)
(***************************************************************************)
EXTENDS Integers, Naturals, Sequences, FiniteSets, TLC

VARIABLES
    now,              \* millis()
    pc,               \* position in loop()
    wifiUp,           \* WiFi.status() == WL_CONNECTED
    attempts,         \* attempts of connectToWiFi()
    lvLeft,           \* physical level of BTN_LEFT   (TRUE = LOW = pressed)
    lvRight,          \* physical level of BTN_RIGHT
    lvSelect,         \* physical level of BTN_SELECT
    currentScreen,
    settingsMode,
    displayOn,
    autoSwitch,
    colonVisible,
    dataValid,        \* weather.dataValid
    lastUpdate,
    lastButtonPress,
    lastPageSwitch,
    lastColonUpdate,
    selectPressStart,
    selectHeld,
    longPressHandled,
    event,            \* what handleButtons() did in the last iteration
    draws,            \* redraws issued by the last iteration
    power,            \* display-controller command issued by the last iteration
    sel,              \* observer of the current physical Select press
    held,             \* observer of the current physical Left / Right presses
    used,             \* budget of events used so far
    spent,            \* milliseconds passed outside quiet periods
    fired,            \* timers of loop() that fired in the last iteration
    started,          \* millis() when the last iteration called handleButtons()
    lastFetch,        \* millis() when fetchOneCallData() was last called
    sprite,           \* what the offscreen buffer holds
    tft,              \* what the panel shows
    fetched,          \* how fetchOneCallData() ended in the last iteration
    args,             \* a drawing function under study: its inputs
    ret,              \* and what it did
    panelOn           \* the display output of the panel is on

vars == << now, pc, wifiUp, attempts, lvLeft, lvRight, lvSelect, currentScreen,
           settingsMode, displayOn, autoSwitch, colonVisible, dataValid,
           lastUpdate, lastButtonPress, lastPageSwitch, lastColonUpdate,
           selectPressStart, selectHeld, longPressHandled, event, draws,
           power, sel, held, used, spent, fired, started, lastFetch, sprite,
           tft, fetched, args, ret, panelOn >>

----------------------------------------------------------------------------
(* Program constants *)

UPDATE_INTERVAL == 300000
DEBOUNCE_DELAY == 200
PAGE_SWITCH_INTERVAL == 3000
COLON_FLASH_INTERVAL == 500
LONG_PRESS_TIME == 800
LOOP_DELAY == 50
\* an iteration of loop() takes delay(50) and the time of its own work; the
\* model starts one every TickMs
TickMs == 2 * LOOP_DELAY
RECONNECT_DELAY == 500
RECONNECT_ATTEMPTS == 30

\* setup() spends at least delay(100) + delay(500) before loop() starts
SetupDelay == 600

\* setup() calls fetchOneCallData() after its delay(100)
SetupFetch == 100

(* Bounds of the model *)

\* milliseconds explored iteration by iteration (idle periods taken in one
\* step are not counted)
Horizon == 900
\* budget of the things that happen to the device in one run: a button
\* press takes one, a WiFi outage or a quiet period (idle time up to the
\* next refresh) two
MaxEvents == 3
\* cap of the event counters of the observers
MaxCount == 2
\* largest weather code an icon is drawn for
MaxCode == 900

\* millis() is an unsigned counter that wraps; the model keeps the modular
\* arithmetic at a width TLC's integers can hold.
Wrap == 2^21

\* the difference taken as a signed number
SubSigned(a, b) == a - b

Sub(a, b) == (a - b) % Wrap

----------------------------------------------------------------------------
(* Screens *)

WeatherScreens == {"SCREEN_HOURLY", "SCREEN_HOURLY2", "SCREEN_CONDITIONS", "SCREEN_DAILY"}
SettingsScreens == {"SCREEN_SETTINGS", "SCREEN_ABOUT", "SCREEN_DEMO", "SCREEN_DEMO2", "SCREEN_DEMO3"}
Screen == WeatherScreens \cup SettingsScreens

\* the screen set "associated with" a mode
ModeScreens(settings) == IF settings THEN SettingsScreens ELSE WeatherScreens

----------------------------------------------------------------------------
(* Navigation tables of handleButtons() and loop() *)

\* the switch of the auto page switch in loop()
AutoNext(screen) ==
    CASE screen = "SCREEN_HOURLY"     -> "SCREEN_HOURLY2"
      [] screen = "SCREEN_HOURLY2"    -> "SCREEN_CONDITIONS"
      [] screen = "SCREEN_CONDITIONS" -> "SCREEN_DAILY"
      [] screen = "SCREEN_DAILY"      -> "SCREEN_SETTINGS"
      [] screen = "SCREEN_SETTINGS"   -> "SCREEN_ABOUT"
      [] screen = "SCREEN_ABOUT"      -> "SCREEN_DEMO"
      [] screen = "SCREEN_DEMO"       -> "SCREEN_DEMO2"
      [] screen = "SCREEN_DEMO2"      -> "SCREEN_DEMO3"
      [] screen = "SCREEN_DEMO3"      -> "SCREEN_HOURLY"
      [] OTHER                        -> "SCREEN_HOURLY"

\* a Left table that follows the order of the auto page switch
NextLeftAcrossModes(screen, settings) == AutoNext(screen)

\* Left in either mode: the two `if (leftPressed)` switches
NextLeft(screen, settings) ==
    IF settings
    THEN CASE screen = "SCREEN_SETTINGS" -> "SCREEN_ABOUT"
           [] screen = "SCREEN_ABOUT"    -> "SCREEN_DEMO"
           [] screen = "SCREEN_DEMO"     -> "SCREEN_DEMO2"
           [] screen = "SCREEN_DEMO2"    -> "SCREEN_DEMO3"
           [] screen = "SCREEN_DEMO3"    -> "SCREEN_SETTINGS"
           [] OTHER                      -> "SCREEN_SETTINGS"
    ELSE CASE screen = "SCREEN_HOURLY"     -> "SCREEN_HOURLY2"
           [] screen = "SCREEN_HOURLY2"    -> "SCREEN_CONDITIONS"
           [] screen = "SCREEN_CONDITIONS" -> "SCREEN_DAILY"
           [] screen = "SCREEN_DAILY"      -> "SCREEN_HOURLY"
           [] OTHER                        -> "SCREEN_HOURLY"

\* a Right table that is a copy of the Left table
NextRightForward(screen, settings) == NextLeft(screen, settings)

\* Right (Left not pressed) in either mode: the two `else` switches
NextRight(screen, settings) ==
    IF settings
    THEN CASE screen = "SCREEN_SETTINGS" -> "SCREEN_DEMO3"
           [] screen = "SCREEN_ABOUT"    -> "SCREEN_SETTINGS"
           [] screen = "SCREEN_DEMO"     -> "SCREEN_ABOUT"
           [] screen = "SCREEN_DEMO2"    -> "SCREEN_DEMO"
           [] screen = "SCREEN_DEMO3"    -> "SCREEN_DEMO2"
           [] OTHER                      -> "SCREEN_SETTINGS"
    ELSE CASE screen = "SCREEN_HOURLY"     -> "SCREEN_DAILY"
           [] screen = "SCREEN_HOURLY2"    -> "SCREEN_HOURLY"
           [] screen = "SCREEN_CONDITIONS" -> "SCREEN_HOURLY2"
           [] screen = "SCREEN_DAILY"      -> "SCREEN_CONDITIONS"
           [] OTHER                        -> "SCREEN_HOURLY"

\* a long press that lands on the first screen of the mode it leaves
LongPressScreenOfOldMode(settings) ==
    IF settings THEN "SCREEN_HOURLY" ELSE "SCREEN_SETTINGS"

\* first screen of the mode a long press switches to
LongPressScreen(settings) ==
    IF settings THEN "SCREEN_SETTINGS" ELSE "SCREEN_HOURLY"

\* turning on without `currentScreen = SCREEN_HOURLY`
WakeScreenKept == currentScreen

\* screen shown when the display is turned on (short press or Left/Right)
WakeScreen == "SCREEN_HOURLY"

\* turning on without `settingsMode = false`
WakeSettingsModeKept == settingsMode

\* settingsMode when the display is turned on
WakeSettingsMode == FALSE

----------------------------------------------------------------------------
(* Conditions of handleButtons(), t being the value millis() returns *)

\* `else if (selectHeld && millis() - selectPressStart >= LONG_PRESS_TIME)`,
\* reached only when the press-start branch before it is not taken
SelectLongDue(pressed, heldFlag, handled, t, start) ==
    /\ pressed
    /\ ~(~heldFlag /\ ~handled)
    /\ heldFlag
    /\ Sub(t, start) >= LONG_PRESS_TIME

\* `if (selectHeld && millis() - selectPressStart < LONG_PRESS_TIME)` on release
SelectShortDue(pressed, heldFlag, t, start) ==
    /\ ~pressed
    /\ heldFlag
    /\ Sub(t, start) < LONG_PRESS_TIME

\* a debounce test that still rejects at exactly DEBOUNCE_DELAY
DebouncedInclusive(t, last) == Sub(t, last) <= DEBOUNCE_DELAY

\* `if (millis() - lastButtonPress < DEBOUNCE_DELAY) return;`
Debounced(t, last) == Sub(t, last) < DEBOUNCE_DELAY

\* an order of the branches in which Left and Right come before Select
ButtonEventDirectionFirst(g, t, leftPressed, rightPressed, selectPressed) ==
    IF ~Debounced(t, g.lastButtonPress) /\ (leftPressed \/ rightPressed)
    THEN IF ~g.displayOn THEN "Wake"
         ELSE IF leftPressed THEN "Left" ELSE "Right"
    ELSE IF SelectLongDue(selectPressed, g.selectHeld, g.longPressHandled, t, g.selectPressStart)
    THEN "LongPress"
    ELSE IF SelectShortDue(selectPressed, g.selectHeld, t, g.selectPressStart)
    THEN "ShortPress"
    ELSE "None"

\* a navigation block that tests rightPressed first
ButtonEventRightFirst(g, t, leftPressed, rightPressed, selectPressed) ==
    IF SelectLongDue(selectPressed, g.selectHeld, g.longPressHandled, t, g.selectPressStart)
    THEN "LongPress"
    ELSE IF SelectShortDue(selectPressed, g.selectHeld, t, g.selectPressStart)
    THEN "ShortPress"
    ELSE IF Debounced(t, g.lastButtonPress)
    THEN "None"
    ELSE IF ~g.displayOn /\ (leftPressed \/ rightPressed)
    THEN "Wake"
    ELSE IF rightPressed
    THEN "Right"
    ELSE IF leftPressed
    THEN "Left"
    ELSE "None"

\* what one call of handleButtons() does, by the branch it returns from;
\* g holds the globals, t is millis()
ButtonEvent(g, t, leftPressed, rightPressed, selectPressed) ==
    IF SelectLongDue(selectPressed, g.selectHeld, g.longPressHandled, t, g.selectPressStart)
    THEN "LongPress"
    ELSE IF SelectShortDue(selectPressed, g.selectHeld, t, g.selectPressStart)
    THEN "ShortPress"
    ELSE IF Debounced(t, g.lastButtonPress)
    THEN "None"
    ELSE IF ~g.displayOn /\ (leftPressed \/ rightPressed)
    THEN "Wake"
    ELSE IF leftPressed
    THEN "Left"
    ELSE IF rightPressed
    THEN "Right"
    ELSE "None"

----------------------------------------------------------------------------
(* Drawing *)

\* displayScreen(screen): a full repaint of the screen
DisplayScreen(d) == d \cup {"Full"}

\* drawHeader(); sprite.pushSprite(0, 0) of the colon flash
DrawHeader(d) == d \cup {"PartialHeader"}

Min(a, b) == IF a < b THEN a ELSE b

\* What the offscreen buffer (sprite) and the panel (tft) hold: "Header" the
\* header line, "Body" the rest of a screen's layout (icon, temperature,
\* grid, footer, indicator), "NoData" the message of displayError(),
\* "ConnectText" the status lines of connectToWiFi().

\* displayError(msg): tft.fillScreen(), then the message is drawn into the
\* buffer; nothing is pushed
DisplayError(g) ==
    [g EXCEPT !.tft = {}, !.sprite = @ \cup {"NoData"}]

\* displayHourlyForecast(), displayHourlyForecast2(), displayConditions(),
\* displayDailyForecast(): fillSprite, then the error path, or the layout
\* and sprite.pushSprite (the snapshot, when valid, is taken to hold the
\* hours and days the screen asks for)
DisplayWeather(g) ==
    IF ~g.dataValid
    THEN DisplayError([g EXCEPT !.sprite = {}])
    ELSE [g EXCEPT !.sprite = {"Header", "Body"}, !.tft = {"Header", "Body"}]

\* displaySettings(), displayAbout(), displayDemo(), displayDemo2(),
\* displayDemo3(): fillSprite, the layout, sprite.pushSprite
DisplaySettings(g) ==
    [g EXCEPT !.sprite = {"Body"}, !.tft = {"Body"}]

\* displayScreen(screen) on the buffer and the panel
Render(g, screen) ==
    IF screen \in WeatherScreens THEN DisplayWeather(g) ELSE DisplaySettings(g)

\* drawHeader(); sprite.pushSprite(0, 0) on the buffer and the panel (the
\* clock is taken to be set, so that drawHeader() draws)
PushHeader(g) ==
    [g EXCEPT !.sprite = @ \cup {"Header"}, !.tft = g.sprite \cup {"Header"}]

\* a weather-mode switch without `case SCREEN_HOURLY2`
ScreenIndexNoHourly2(screen, settings) ==
    IF settings
    THEN CASE screen = "SCREEN_SETTINGS" -> 0
           [] screen = "SCREEN_ABOUT"    -> 1
           [] screen = "SCREEN_DEMO"     -> 2
           [] screen = "SCREEN_DEMO2"    -> 3
           [] screen = "SCREEN_DEMO3"    -> 4
           [] OTHER                      -> 0
    ELSE CASE screen = "SCREEN_HOURLY"     -> 0
           [] screen = "SCREEN_CONDITIONS" -> 2
           [] screen = "SCREEN_DAILY"      -> 3
           [] OTHER                        -> 0

\* screenIndex of drawScreenIndicator(): the two switches on currentScreen
ScreenIndex(screen, settings) ==
    IF settings
    THEN CASE screen = "SCREEN_SETTINGS" -> 0
           [] screen = "SCREEN_ABOUT"    -> 1
           [] screen = "SCREEN_DEMO"     -> 2
           [] screen = "SCREEN_DEMO2"    -> 3
           [] screen = "SCREEN_DEMO3"    -> 4
           [] OTHER                      -> 0
    ELSE CASE screen = "SCREEN_HOURLY"     -> 0
           [] screen = "SCREEN_HOURLY2"    -> 1
           [] screen = "SCREEN_CONDITIONS" -> 2
           [] screen = "SCREEN_DAILY"      -> 3
           [] OTHER                        -> 0

\* `int numDots = settingsMode ? 5 : 4`
NumDots(settings) == IF settings THEN 5 ELSE 4

\* drawScreenIndicator(): the circle drawn for each i of its for loop
DrawScreenIndicator(screen, settings) ==
    [i \in 0..(NumDots(settings) - 1) |->
        IF i = ScreenIndex(screen, settings) THEN "fillCircle" ELSE "drawCircle"]

\* weather.hourlyCount after a fetch: min((int)hourly.size(), 24)
HourlyCounts == 0..24

\* a drawHourlyRange() without the clamp to weather.hourlyCount
DrawHourlyRangeUnclamped(hourlyCount, startIdx, count) ==
    {startIdx + i : i \in 0..(count - 1)}

\* drawHourlyRange(startIdx, count, yPos): the indices of weather.hourly[]
\* it reads
DrawHourlyRange(hourlyCount, startIdx, count) ==
    LET actualCount == Min(count, hourlyCount - startIdx)
    IN  IF actualCount <= 0
        THEN {}
        ELSE {startIdx + i : i \in 0..(actualCount - 1)}

\* `if (!weather.dataValid || weather.hourlyCount < 14)`
Hourly2NoData(valid, hourlyCount) == ~valid \/ hourlyCount < 14

\* displayHourlyForecast2() on the buffer and the panel (skipPush is false
\* outside swipeTransition())
DisplayHourlyForecast2(g, hourlyCount) ==
    IF Hourly2NoData(g.dataValid, hourlyCount)
    THEN DisplayError([g EXCEPT !.sprite = {}])
    ELSE [g EXCEPT !.sprite = {"Header", "Body"}, !.tft = {"Header", "Body"}]

\* the indices of weather.hourly[] displayHourlyForecast2() reads: hours
\* 1-7 in the first row, 8-14 in the second
Hourly2Reads(valid, hourlyCount) ==
    IF Hourly2NoData(valid, hourlyCount)
    THEN {}
    ELSE DrawHourlyRange(hourlyCount, 1, 7) \cup DrawHourlyRange(hourlyCount, 8, 7)

\* drawWeatherIcon(code, x, y, size, isNight): the draw commands it emits,
\* in order.  A command is the call, its colour and its radius (as the
\* factor of r, or in pixels); the coordinates, functions of x, y and r
\* alone, are left out.

Circle(colour, radius) == << "fillCircle", colour, radius >>
Triangle(colour) == << "fillTriangle", colour, "" >>
Line(colour) == << "drawLine", colour, "" >>

Repeat(n, cmd) == [i \in 1..n |-> cmd]

\* a chain of tests in which 802 falls into the branch of 801
IconBandFewTo802(code) ==
    IF code = 800 THEN "clear"
    ELSE IF code >= 801 /\ code <= 802 THEN "few"
    ELSE "default"

\* the if / else-if chain on code: the branch taken
IconBand(code) ==
    IF code = 800 THEN "clear"
    ELSE IF code = 801 THEN "few"
    ELSE IF code >= 802 /\ code <= 803 THEN "cloudy"
    ELSE IF code = 804 THEN "overcast"
    ELSE IF code >= 500 /\ code <= 531 THEN "rain"
    ELSE IF code >= 200 /\ code <= 232 THEN "storm"
    ELSE IF code >= 600 /\ code <= 622 THEN "snow"
    ELSE IF code >= 701 /\ code <= 781 THEN "atmosphere"
    ELSE "default"

\* what each branch draws
IconCommands(band, isNight) ==
    CASE band = "clear" ->
            IF isNight
            THEN << Circle("COLOR_MOON", "0.5"), Circle("0x8410", "0.12"),
                    Circle("0x8410", "0.08"), Circle("0x8410", "0.06") >>
            ELSE Repeat(12, Triangle("COLOR_SUN"))
                    \o << Circle("COLOR_ACCENT", "0.56") >>
      [] band = "few" ->
            (IF isNight
             THEN << Circle("COLOR_MOON", "0.3"), Circle("0x8410", "0.07"),
                     Circle("0x8410", "0.05") >>
             ELSE Repeat(12, Triangle("COLOR_SUN"))
                     \o << Circle("COLOR_ACCENT", "0.36") >>)
            \o << Circle("COLOR_CLOUD_DARK", "0.3"), Circle("COLOR_CLOUD_MID", "0.35"),
                  Circle("COLOR_CLOUD_MID", "0.3"), Circle("COLOR_CLOUD_MID", "0.25"),
                  Circle("COLOR_CLOUD", "0.2") >>
      [] band = "cloudy" ->
            << Circle("COLOR_CLOUD_DARK", "0.4"), Circle("COLOR_CLOUD_DARK", "0.35"),
               Circle("COLOR_CLOUD_MID", "0.45"), Circle("COLOR_CLOUD_MID", "0.5"),
               Circle("COLOR_CLOUD_MID", "0.4"), Circle("COLOR_CLOUD_MID", "0.35"),
               Circle("COLOR_CLOUD", "0.25"), Circle("COLOR_CLOUD", "0.3") >>
      [] band = "overcast" ->
            << Circle("COLOR_OVERCAST", "0.4"), Circle("COLOR_OVERCAST", "0.35"),
               Circle("COLOR_CLOUD_DARK", "0.45"), Circle("COLOR_CLOUD_DARK", "0.5"),
               Circle("COLOR_CLOUD_DARK", "0.4"), Circle("COLOR_CLOUD_DARK", "0.35"),
               Circle("COLOR_CLOUD_MID", "0.2"), Circle("COLOR_CLOUD_MID", "0.25") >>
      [] band = "rain" ->
            << Circle("COLOR_CLOUD_DARK", "0.35"), Circle("COLOR_CLOUD_MID", "0.35"),
               Circle("COLOR_CLOUD_MID", "0.4"), Circle("COLOR_CLOUD_MID", "0.35"),
               Circle("COLOR_CLOUD", "0.2"), Circle("COLOR_CLOUD", "0.22") >>
            \o Repeat(5, Line("COLOR_RAIN"))
      [] band = "storm" ->
            << Circle("COLOR_CLOUD_DARK", "0.35"), Circle("COLOR_CLOUD_DARK", "0.35"),
               Circle("COLOR_CLOUD_MID", "0.4"), Circle("COLOR_CLOUD_MID", "0.35"),
               Circle("COLOR_CLOUD", "0.18"),
               Triangle("COLOR_BOLT"), Triangle("COLOR_BOLT") >>
      [] band = "snow" ->
            << Circle("COLOR_CLOUD_DARK", "0.35"), Circle("COLOR_CLOUD_MID", "0.35"),
               Circle("COLOR_CLOUD_MID", "0.4"), Circle("COLOR_CLOUD_MID", "0.35"),
               Circle("COLOR_CLOUD", "0.2"), Circle("COLOR_CLOUD", "0.22"),
               Circle("COLOR_SNOW", "3px"), Circle("COLOR_SNOW", "3px"),
               Circle("COLOR_SNOW", "3px") >>
      [] band = "atmosphere" ->
            << Circle("mistDark", "0.3"), Circle("mistMid", "0.3"),
               Circle("mistMid", "0.35"), Circle("mistLight", "0.18"),
               Line("mistDark"), Line("mistMid"), Line("mistDark") >>
      [] OTHER ->
            << Circle("COLOR_CLOUD_DARK", "0.35"), Circle("COLOR_CLOUD_MID", "0.4"),
               Circle("COLOR_CLOUD_MID", "0.45"), Circle("COLOR_CLOUD", "0.2") >>

DrawWeatherIcon(code, isNight) == IconCommands(IconBand(code), isNight)

\* The build that draws straight to the panel (no offscreen buffer)

\* `if (!weather.dataValid || weather.hourlyCount == 0)`
HourlyNoData(valid, hourlyCount) == ~valid \/ hourlyCount = 0

\* `int displayCount = min(7, weather.hourlyCount - 1)`
DisplayCount(hourlyCount) == Min(7, hourlyCount - 1)

\* displayHourlyForecast() of that build: the ways a call can go.  outcome:
\* "placeholder" (displayError), "layout", or "crash"; divisors: the
\* divisors of the integer divisions executed; reads: the indices of
\* weather.hourly[] read; panel: what the panel shows afterwards.
\* `availableWidth / displayCount` with displayCount 0 is undefined: the
\* division traps, or (the quotient being unused when the loop body never
\* runs) the call goes on.
DisplayHourlyForecastDirect(valid, hourlyCount) ==
    IF HourlyNoData(valid, hourlyCount)
    THEN {[outcome |-> "placeholder", divisors |-> {}, reads |-> {},
           panel |-> {"NoData"}]}
    ELSE LET displayCount == DisplayCount(hourlyCount)
             reads == {i + 1 : i \in 0..(displayCount - 1)}
         IN  {[outcome |-> o, divisors |-> {displayCount}, reads |-> reads,
               panel |-> {"Header", "Body"}] :
                o \in IF displayCount = 0 THEN {"layout", "crash"} ELSE {"layout"}}

----------------------------------------------------------------------------
(* Initial state: the globals as setup() leaves them *)

Buttons == {"Left", "Right"}

\* phase: "idle"; "down" from the press; "up" from the release; "done" once
\* an iteration has sampled the release; "blur" for a press that followed a
\* release no iteration sampled (the loop cannot tell the two apart) and
\* "blurUp" from its release.
\* t0: time of the press; sampled: an iteration sampled it pressed;
\* longHold: it was held for LONG_PRESS_TIME or more; short, long: the
\* short-press and long-press events fired since the press
SelIdle == [phase |-> "idle", t0 |-> 0, sampled |-> FALSE, longHold |-> FALSE,
            short |-> 0, long |-> 0]

\* Left, Right: events the current physical press of the button has produced;
\* seen: the current Left press has been sampled; early: its first sample
\* fell into the debounce window of an accepted Left step; byLeft: the last
\* accepted event was a Left step
HeldNone == [Left |-> 0, Right |-> 0, seen |-> FALSE, early |-> FALSE,
             byLeft |-> FALSE]

\* no drawing function is under study
NoCall == [fn |-> "none"]

\* what setup() leaves whatever the screen
InitGlobals ==
    /\ pc = "top"
    /\ wifiUp = TRUE
    /\ attempts = 0
    /\ lvLeft = FALSE /\ lvRight = FALSE /\ lvSelect = FALSE
    /\ displayOn = TRUE
    /\ colonVisible = TRUE
    /\ dataValid \in BOOLEAN          \* outcome of the fetch made by setup()
    /\ lastUpdate = now               \* lastUpdate = millis() ending setup()
    /\ lastButtonPress = 0
    /\ lastPageSwitch = 0
    /\ lastColonUpdate = 0
    /\ selectPressStart = 0
    /\ selectHeld = FALSE
    /\ longPressHandled = FALSE
    /\ event = "None"
    /\ draws = {}
    /\ power = "none"
    /\ sel = SelIdle
    /\ held = HeldNone
    /\ used = 0
    /\ spent = 0
    /\ fired = {}
    /\ started = 0
    /\ lastFetch = SetupFetch
    /\ fetched = "none"
    \* tft.init() of setup() leaves the display output on
    /\ panelOn = TRUE

InitCommon ==
    /\ InitGlobals
    /\ currentScreen = "SCREEN_HOURLY"
    /\ settingsMode = FALSE
    \* setup() ends with displayHourlyForecast()
    /\ sprite = IF dataValid THEN {"Header", "Body"} ELSE {"NoData"}
    /\ tft = IF dataValid THEN {"Header", "Body"} ELSE {}

\* the build as written: bool autoSwitch = false
Init ==
    /\ now = SetupDelay
    /\ InitCommon
    /\ autoSwitch = FALSE
    /\ args = NoCall /\ ret = NoCall

\* attempts the connectToWiFi() of setup() may take before the link is up
SetupAttempts == {0, 4}

\* the build with the auto page switch enabled; setup() takes delay(500)
\* more for every attempt of its connectToWiFi()
InitAuto ==
    /\ now \in {SetupDelay + n * RECONNECT_DELAY : n \in SetupAttempts}
    /\ InitCommon
    /\ autoSwitch = TRUE
    /\ args = NoCall /\ ret = NoCall

----------------------------------------------------------------------------
(* The environment: the physical buttons and the WiFi link.  They change   *)
(* between two actions of the loop: before an iteration samples them, and  *)
(* while a reconnect attempt or the fetch blocks.                          *)

Open == pc \in {"top", "wifi", "fetch"}

\* what is left of the budget of events: a press takes one, a WiFi outage
\* or a quiet period two
Affordable(cost) == used + cost <= MaxEvents

PressSelect ==
    /\ Open /\ ~lvSelect /\ Affordable(1)
    /\ lvSelect' = TRUE
    /\ used' = used + 1
    /\ sel' = IF sel.phase \in {"up", "blurUp"}
              THEN [SelIdle EXCEPT !.phase = "blur"]
              ELSE [SelIdle EXCEPT !.phase = "down", !.t0 = now]
    /\ UNCHANGED << now, pc, wifiUp, attempts, lvLeft, lvRight, currentScreen,
                    settingsMode, displayOn, autoSwitch, colonVisible, dataValid,
                    lastUpdate, lastButtonPress, lastPageSwitch, lastColonUpdate,
                    selectPressStart, selectHeld, longPressHandled, event,
                    draws, power, held, spent,
                    fired, started, lastFetch, sprite, tft,
                    fetched, args, ret, panelOn >>

ReleaseSelect ==
    /\ Open /\ lvSelect
    /\ lvSelect' = FALSE
    /\ sel' = IF sel.phase = "blur"
              THEN [sel EXCEPT !.phase = "blurUp"]
              ELSE [sel EXCEPT !.phase = "up", !.t0 = 0,
                               !.longHold = (Sub(now, sel.t0) >= LONG_PRESS_TIME)]
    /\ UNCHANGED << now, pc, wifiUp, attempts, lvLeft, lvRight, currentScreen,
                    settingsMode, displayOn, autoSwitch, colonVisible, dataValid,
                    lastUpdate, lastButtonPress, lastPageSwitch, lastColonUpdate,
                    selectPressStart, selectHeld, longPressHandled, event,
                    draws, power, held, used, spent,
                    fired, started, lastFetch, sprite, tft,
                    fetched, args, ret, panelOn >>

PressLeft ==
    /\ Open /\ ~lvLeft /\ Affordable(1)
    /\ lvLeft' = TRUE
    /\ used' = used + 1
    /\ UNCHANGED << now, pc, wifiUp, attempts, lvRight, lvSelect, currentScreen,
                    settingsMode, displayOn, autoSwitch, colonVisible, dataValid,
                    lastUpdate, lastButtonPress, lastPageSwitch, lastColonUpdate,
                    selectPressStart, selectHeld, longPressHandled, event,
                    draws, power, sel, held, spent,
                    fired, started, lastFetch, sprite, tft,
                    fetched, args, ret, panelOn >>

ReleaseLeft ==
    /\ Open /\ lvLeft
    /\ lvLeft' = FALSE
    /\ held' = [held EXCEPT !.Left = 0, !.seen = FALSE, !.early = FALSE]
    /\ UNCHANGED << now, pc, wifiUp, attempts, lvRight, lvSelect, currentScreen,
                    settingsMode, displayOn, autoSwitch, colonVisible, dataValid,
                    lastUpdate, lastButtonPress, lastPageSwitch, lastColonUpdate,
                    selectPressStart, selectHeld, longPressHandled, event,
                    draws, power, sel, used, spent,
                    fired, started, lastFetch, sprite, tft,
                    fetched, args, ret, panelOn >>

PressRight ==
    /\ Open /\ ~lvRight /\ Affordable(1)
    /\ lvRight' = TRUE
    /\ used' = used + 1
    /\ UNCHANGED << now, pc, wifiUp, attempts, lvLeft, lvSelect, currentScreen,
                    settingsMode, displayOn, autoSwitch, colonVisible, dataValid,
                    lastUpdate, lastButtonPress, lastPageSwitch, lastColonUpdate,
                    selectPressStart, selectHeld, longPressHandled, event,
                    draws, power, sel, held, spent,
                    fired, started, lastFetch, sprite, tft,
                    fetched, args, ret, panelOn >>

ReleaseRight ==
    /\ Open /\ lvRight
    /\ lvRight' = FALSE
    /\ held' = [held EXCEPT !.Right = 0]
    /\ UNCHANGED << now, pc, wifiUp, attempts, lvLeft, lvSelect, currentScreen,
                    settingsMode, displayOn, autoSwitch, colonVisible, dataValid,
                    lastUpdate, lastButtonPress, lastPageSwitch, lastColonUpdate,
                    selectPressStart, selectHeld, longPressHandled, event,
                    draws, power, sel, used, spent,
                    fired, started, lastFetch, sprite, tft,
                    fetched, args, ret, panelOn >>

\* an outage takes two of the budget, and one when the refresh is due in
\* the next iteration or overdue
OutageCost ==
    IF Sub(now, lastUpdate) >= UPDATE_INTERVAL - TickMs THEN 1 ELSE 2

WiFiDrop ==
    /\ Open /\ wifiUp /\ Affordable(OutageCost)
    /\ wifiUp' = FALSE
    /\ used' = used + OutageCost
    /\ UNCHANGED << now, pc, attempts, lvLeft, lvRight, lvSelect, currentScreen,
                    settingsMode, displayOn, autoSwitch, colonVisible, dataValid,
                    lastUpdate, lastButtonPress, lastPageSwitch, lastColonUpdate,
                    selectPressStart, selectHeld, longPressHandled, event,
                    draws, power, sel, held, spent,
                    fired, started, lastFetch, sprite, tft,
                    fetched, args, ret, panelOn >>

WiFiRestore ==
    /\ Open /\ ~wifiUp
    /\ wifiUp' = TRUE
    /\ UNCHANGED << now, pc, attempts, lvLeft, lvRight, lvSelect, currentScreen,
                    settingsMode, displayOn, autoSwitch, colonVisible, dataValid,
                    lastUpdate, lastButtonPress, lastPageSwitch, lastColonUpdate,
                    selectPressStart, selectHeld, longPressHandled, event,
                    draws, power, sel, held, used, spent,
                    fired, started, lastFetch, sprite, tft,
                    fetched, args, ret, panelOn >>

----------------------------------------------------------------------------
(* Time *)

\* the part of the HTTP request that one FetchWait step covers
FetchSlice == 4 * TickMs

----------------------------------------------------------------------------
(* loop() and handleButtons() as functions of the globals.  g is the       *)
(* record of the globals they read and write, t the value of millis().     *)

Globals ==
    [currentScreen |-> currentScreen, settingsMode |-> settingsMode,
     displayOn |-> displayOn, colonVisible |-> colonVisible,
     dataValid |-> dataValid, lastUpdate |-> lastUpdate,
     lastButtonPress |-> lastButtonPress, lastPageSwitch |-> lastPageSwitch,
     lastColonUpdate |-> lastColonUpdate, selectPressStart |-> selectPressStart,
     selectHeld |-> selectHeld, longPressHandled |-> longPressHandled,
     event |-> event, draws |-> draws, power |-> power, fired |-> fired,
     sprite |-> sprite, tft |-> tft, fetched |-> fetched, panelOn |-> panelOn]

Store(g) ==
    /\ currentScreen' = g.currentScreen
    /\ settingsMode' = g.settingsMode
    /\ displayOn' = g.displayOn
    /\ colonVisible' = g.colonVisible
    /\ dataValid' = g.dataValid
    /\ lastUpdate' = g.lastUpdate
    /\ lastButtonPress' = g.lastButtonPress
    /\ lastPageSwitch' = g.lastPageSwitch
    /\ lastColonUpdate' = g.lastColonUpdate
    /\ selectPressStart' = g.selectPressStart
    /\ selectHeld' = g.selectHeld
    /\ longPressHandled' = g.longPressHandled
    /\ event' = g.event
    /\ draws' = g.draws
    /\ power' = g.power
    /\ fired' = g.fired
    /\ sprite' = g.sprite
    /\ tft' = g.tft
    /\ fetched' = g.fetched
    /\ panelOn' = g.panelOn

\* the long-press branch of handleButtons()
LongPress(g, t) ==
    Render([g EXCEPT !.selectHeld = FALSE,
                     !.longPressHandled = TRUE,
                     !.lastButtonPress = t,
                     !.settingsMode = ~g.settingsMode,
                     !.currentScreen = LongPressScreen(~g.settingsMode),
                     !.draws = DisplayScreen(g.draws)],
           LongPressScreen(~g.settingsMode))

\* turning the display on: by a short press, or by Left / Right
TurnOn(g) ==
    Render([g EXCEPT !.displayOn = TRUE,
                     !.power = "0x29",
                     !.panelOn = TRUE,
                     !.settingsMode = WakeSettingsMode,
                     !.currentScreen = WakeScreen,
                     !.draws = DisplayScreen(g.draws)],
           WakeScreen)

\* turning off without a command to the display controller
TurnOffSilent(g) == [g EXCEPT !.displayOn = FALSE]

\* turning the display off by a short press: tft.writecommand(0x28)
TurnOff(g) ==
    [g EXCEPT !.displayOn = FALSE,
              !.power = "0x28",
              !.panelOn = FALSE]

\* the short-press branch of handleButtons()
ShortPress(g, t) ==
    LET h == [g EXCEPT !.selectHeld = FALSE, !.lastButtonPress = t]
    IN  IF ~g.displayOn THEN TurnOn(h) ELSE TurnOff(h)

\* what the Select block does when neither branch returns
SelectTrack(g, t, selectPressed) ==
    IF selectPressed
    THEN IF ~g.selectHeld /\ ~g.longPressHandled
         THEN [g EXCEPT !.selectPressStart = t, !.selectHeld = TRUE]
         ELSE g
    ELSE [g EXCEPT !.selectHeld = FALSE, !.longPressHandled = FALSE]

\* `if (!displayOn && (leftPressed || rightPressed))`
Wake(g, t) == TurnOn([g EXCEPT !.lastButtonPress = t])

\* `if (leftPressed || rightPressed)` with the display on
Navigate(g, t, leftPressed) ==
    LET previousScreen == g.currentScreen
        next == IF leftPressed
                THEN NextLeft(g.currentScreen, g.settingsMode)
                ELSE NextRight(g.currentScreen, g.settingsMode)
        h == [g EXCEPT !.lastButtonPress = t, !.currentScreen = next]
    IN  IF next # previousScreen
        THEN Render([h EXCEPT !.draws = DisplayScreen(g.draws),
                              !.lastPageSwitch = t],
                    next)
        ELSE h

\* handleButtons()
HandleButtons(g, t, leftPressed, rightPressed, selectPressed) ==
    LET ev == ButtonEvent(g, t, leftPressed, rightPressed, selectPressed)
        h == [g EXCEPT !.event = ev]
    IN  CASE ev = "LongPress"  -> LongPress(h, t)
          [] ev = "ShortPress" -> ShortPress(h, t)
          [] ev = "Wake"       -> Wake(SelectTrack(h, t, selectPressed), t)
          [] ev \in {"Left", "Right"} ->
                Navigate(SelectTrack(h, t, selectPressed), t, leftPressed)
          [] OTHER             -> SelectTrack(h, t, selectPressed)

\* `if (autoSwitch && millis() - lastPageSwitch >= PAGE_SWITCH_INTERVAL)`
AutoSwitchDue(enabled, t, last) ==
    enabled /\ Sub(t, last) >= PAGE_SWITCH_INTERVAL

\* the auto page switch of loop()
AutoSwitch(g, t, enabled) ==
    IF AutoSwitchDue(enabled, t, g.lastPageSwitch)
    THEN Render([g EXCEPT !.draws = DisplayScreen(g.draws),
                          !.currentScreen = AutoNext(g.currentScreen),
                          !.lastPageSwitch = t,
                          !.fired = @ \cup {"auto"}],
                AutoNext(g.currentScreen))
    ELSE g

\* a refresh that is due only after more than UPDATE_INTERVAL
RefreshDueStrict(t, last) == Sub(t, last) > UPDATE_INTERVAL

\* `if (millis() - lastUpdate >= UPDATE_INTERVAL)`
RefreshDue(t, last) == Sub(t, last) >= UPDATE_INTERVAL

\* a refresh branch that repaints without looking at displayOn
AfterFetchAlways(g, t, ok) ==
    Render([g EXCEPT !.dataValid = ok,
                     !.lastUpdate = t,
                     !.fired = @ \cup {"refresh"},
                     !.draws = DisplayScreen(g.draws)],
           g.currentScreen)

\* the refresh branch of loop() once fetchOneCallData() has returned
AfterFetch(g, t, ok) ==
    LET h == [g EXCEPT !.dataValid = ok,
                       !.lastUpdate = t,
                       !.fired = @ \cup {"refresh"}]
    IN  IF g.displayOn
        THEN Render([h EXCEPT !.draws = DisplayScreen(g.draws)], g.currentScreen)
        ELSE h

\* how a call of fetchOneCallData() that gets to the HTTP request ends: with
\* status 200 and a body that parses, with status 200 and a body that does
\* not, or with another status (the negative codes of a timeout included)
Responses == {"Parsed", "ParseError", "HttpError"}

\* a fetch that keeps the flag of the snapshot it could not replace
FetchKeepsFlag(outcome, valid) == (outcome = "Parsed") \/ valid

\* fetchOneCallData(): weather.dataValid when it returns, by the way it
\* ended ("NoWiFi": the link was down at the call), valid being the flag
\* at the call
FetchOneCallData(outcome, valid) == outcome = "Parsed"

\* the refresh branch of loop(): the fetch, ending with `outcome`, and what
\* follows it
Refresh(g, t, outcome) ==
    AfterFetch([g EXCEPT !.fetched = outcome], t,
               FetchOneCallData(outcome, g.dataValid))

\* `if (displayOn && millis() - lastColonUpdate >= COLON_FLASH_INTERVAL)`
ColonDue(on, t, last) == on /\ Sub(t, last) >= COLON_FLASH_INTERVAL

\* a colon flash that redraws the header on every screen
HeaderScreensAll == Screen

\* the screens on which the colon flash redraws the header
HeaderScreens == {"SCREEN_HOURLY", "SCREEN_HOURLY2", "SCREEN_CONDITIONS", "SCREEN_DAILY"}

\* the colon flash of loop()
ColonFlash(g, t) ==
    IF ColonDue(g.displayOn, t, g.lastColonUpdate)
    THEN LET h == [g EXCEPT !.colonVisible = ~g.colonVisible,
                            !.lastColonUpdate = t,
                            !.fired = @ \cup {"blink"}]
         IN  IF g.currentScreen \in HeaderScreens
             THEN PushHeader([h EXCEPT !.draws = DrawHeader(g.draws)])
             ELSE h
    ELSE g

\* the direct-to-display build: the screens on which its colon flash
\* redraws the header
HeaderScreensDirect == {"SCREEN_HOURLY", "SCREEN_CONDITIONS", "SCREEN_DAILY"}

\* the colon flash of the loop() of the direct-to-display build:
\* drawHeader() writes the panel, there is no buffer to push
ColonFlashDirect(g, t) ==
    IF ColonDue(g.displayOn, t, g.lastColonUpdate)
    THEN LET h == [g EXCEPT !.colonVisible = ~g.colonVisible,
                            !.lastColonUpdate = t,
                            !.fired = @ \cup {"blink"}]
         IN  IF g.currentScreen \in HeaderScreensDirect
             THEN [h EXCEPT !.draws = DrawHeader(g.draws),
                            !.tft = @ \cup {"Header"}]
             ELSE h
    ELSE g

----------------------------------------------------------------------------
(* The actions of loop() *)

\* connectToWiFi() is entered: `if (WiFi.status() != WL_CONNECTED)`
ConnectToWiFi ==
    /\ pc = "top" /\ ~wifiUp
    /\ pc' = "wifi"
    /\ attempts' = 0
    \* tft.fillScreen(); the title and "Connecting to WiFi..." go to the buffer
    /\ tft' = {}
    /\ sprite' = sprite \cup {"ConnectText"}
    /\ UNCHANGED << now, wifiUp, lvLeft, lvRight, lvSelect, currentScreen,
                    settingsMode, displayOn, autoSwitch, colonVisible, dataValid,
                    lastUpdate, lastButtonPress, lastPageSwitch, lastColonUpdate,
                    selectPressStart, selectHeld, longPressHandled, event,
                    draws, power, sel, held, used, spent,
                    fired, started, lastFetch,
                    fetched, args, ret, panelOn >>

\* `while (WiFi.status() != WL_CONNECTED && attempts < 30)`
ReconnectPending(up, n) == ~up /\ n < RECONNECT_ATTEMPTS

\* one delay(500) of the reconnect loop
ReconnectWait ==
    /\ pc = "wifi" /\ ReconnectPending(wifiUp, attempts)
    /\ spent + RECONNECT_DELAY <= Horizon
    /\ spent' = spent + RECONNECT_DELAY
    /\ now' = (now + RECONNECT_DELAY) % Wrap
    /\ attempts' = attempts + 1
    /\ UNCHANGED << pc, wifiUp, lvLeft, lvRight, lvSelect, currentScreen,
                    settingsMode, displayOn, autoSwitch, colonVisible, dataValid,
                    lastUpdate, lastButtonPress, lastPageSwitch, lastColonUpdate,
                    selectPressStart, selectHeld, longPressHandled, event,
                    draws, power, sel, held, used,
                    fired, started, lastFetch, sprite, tft,
                    fetched, args, ret, panelOn >>

\* connectToWiFi() returns
ReconnectDone ==
    /\ pc = "wifi" /\ ~ReconnectPending(wifiUp, attempts)
    /\ pc' = "buttons"
    \* the outcome of the connection goes to the buffer
    /\ sprite' = sprite \cup {"ConnectText"}
    /\ UNCHANGED << now, wifiUp, attempts, lvLeft, lvRight, lvSelect,
                    currentScreen, settingsMode, displayOn, autoSwitch,
                    colonVisible, dataValid, lastUpdate, lastButtonPress,
                    lastPageSwitch, lastColonUpdate, selectPressStart,
                    selectHeld, longPressHandled, event, draws, power, sel,
                    held, used, spent,
                    fired, started, lastFetch, tft,
                    fetched, args, ret, panelOn >>

\* the observers, after a call of handleButtons() that did ev
SelAfter(ev) ==
    LET o == IF sel.phase = "done" THEN SelIdle ELSE sel
    IN  IF o.phase \in {"blur", "blurUp"}
        THEN IF lvSelect THEN o ELSE SelIdle
        ELSE [o EXCEPT
                !.sampled = @ \/ lvSelect,
                !.short = IF ev = "ShortPress" THEN Min(@ + 1, MaxCount) ELSE @,
                !.long = IF ev = "LongPress" THEN Min(@ + 1, MaxCount) ELSE @,
                !.phase = IF ~lvSelect /\ @ = "up" THEN "done" ELSE @]

HeldAfter(ev) ==
    LET b == IF ev = "Left" \/ (ev = "Wake" /\ lvLeft) THEN "Left" ELSE "Right"
        h == IF ev \in {"Left", "Right", "Wake"}
             THEN [held EXCEPT ![b] = Min(@ + 1, MaxCount)]
             ELSE held
    IN  [h EXCEPT !.seen = lvLeft,
                  !.early = IF lvLeft /\ ~held.seen
                            THEN /\ held.byLeft
                                 /\ ev = "None"
                                 /\ Debounced(now, lastButtonPress)
                            ELSE @,
                  !.byLeft = IF ev = "None" THEN @ ELSE ev = "Left"]

\* delay(50): the iteration is over, and the next one starts TickMs after
\* this one started
Delay ==
    /\ spent + TickMs <= Horizon
    /\ spent' = spent + TickMs
    /\ now' = (now + TickMs) % Wrap
    /\ pc' = "top"

\* one iteration of loop() from handleButtons() on: to the end of its
\* delay(50), or into the HTTP request of a refresh that is due
Iterate ==
    /\ \/ pc = "top" /\ wifiUp
       \/ pc = "buttons"
    /\ LET g0 == [Globals EXCEPT !.event = "None", !.draws = {}, !.power = "none",
                                 !.fired = {}, !.fetched = "none"]
           g1 == HandleButtons(g0, now, lvLeft, lvRight, lvSelect)
           g2 == AutoSwitch(g1, now, autoSwitch)
       IN  /\ sel' = SelAfter(g1.event)
           /\ held' = HeldAfter(g1.event)
           /\ started' = now
           /\ lastFetch' = IF RefreshDue(now, g2.lastUpdate) THEN now ELSE lastFetch
           /\ IF ~RefreshDue(now, g2.lastUpdate)
              THEN Store(ColonFlash(g2, now)) /\ Delay
              ELSE IF ~wifiUp
              \* fetchOneCallData() returns at once: "No WiFi connection!"
              THEN Store(ColonFlash(Refresh(g2, now, "NoWiFi"), now)) /\ Delay
              ELSE Store(g2) /\ pc' = "fetch" /\ UNCHANGED << now, spent >>
    /\ UNCHANGED << wifiUp, attempts, lvLeft, lvRight, lvSelect, autoSwitch,
                    used,
                    args, ret >>

\* the globals after one iteration of the loop() of the direct-to-display
\* build that starts from the same globals, samples the same button levels
\* and reads the same clock, when no request is made in it: handleButtons(),
\* the auto page switch and the refresh are the same code in both builds
LoopDirect ==
    LET g0 == [Globals EXCEPT !.event = "None", !.draws = {}, !.power = "none",
                              !.fired = {}, !.fetched = "none"]
        g1 == HandleButtons(g0, now, lvLeft, lvRight, lvSelect)
        g2 == AutoSwitch(g1, now, autoSwitch)
    IN  IF ~RefreshDue(now, g2.lastUpdate)
        THEN ColonFlashDirect(g2, now)
        ELSE ColonFlashDirect(Refresh(g2, now, "NoWiFi"), now)

\* the HTTP request takes FetchSlice more milliseconds
FetchWait ==
    /\ pc = "fetch"
    /\ spent + FetchSlice <= Horizon
    /\ spent' = spent + FetchSlice
    /\ now' = (now + FetchSlice) % Wrap
    /\ UNCHANGED << pc, wifiUp, attempts, lvLeft, lvRight, lvSelect,
                    currentScreen, settingsMode, displayOn, autoSwitch,
                    colonVisible, dataValid, lastUpdate, lastButtonPress,
                    lastPageSwitch, lastColonUpdate, selectPressStart,
                    selectHeld, longPressHandled, event, draws, power, sel,
                    held, used,
                    fired, started, lastFetch, sprite, tft,
                    fetched, args, ret, panelOn >>

\* fetchOneCallData() returns from the request, with or without data, and
\* the iteration runs to the end of its delay(50)
FetchReturn ==
    /\ pc = "fetch"
    /\ \E outcome \in Responses :
          Store(ColonFlash(Refresh(Globals, now, outcome), now))
    /\ Delay
    /\ UNCHANGED << wifiUp, attempts, lvLeft, lvRight, lvSelect, autoSwitch,
                    sel, held, used, started, lastFetch,
                    args, ret >>

----------------------------------------------------------------------------
(* Idle iterations taken in one step.  While nobody touches the buttons,   *)
(* the link stays up and no refresh is due, an iteration starts every      *)
(* TickMs milliseconds and does nothing but the colon flash and the auto   *)
(* page switch.  Idle(span) is what the iterations starting now and less   *)
(* than span from now do together; it leaves the loop at the top of the    *)
(* one that starts span from now.                                          *)

Max(a, b) == IF a > b THEN a ELSE b

CeilTo(x, step) == ((x + step - 1) \div step) * step

\* milliseconds from now to the first skipped iteration in which a timer
\* that last fired `elapsed` ago is due
FirstFire(elapsed, period) ==
    CeilTo(Max(period - elapsed, 0), TickMs)

\* how often that timer fires in the skipped iterations, the last of which
\* starts span - TickMs from now
Fires(first, period, span) ==
    IF first <= span - TickMs
    THEN ((span - TickMs - first) \div CeilTo(period, TickMs)) + 1
    ELSE 0

\* when it fired last
LastFire(first, period, n) == first + (n - 1) * CeilTo(period, TickMs)

RECURSIVE AutoNextN(_, _)
AutoNextN(screen, n) ==
    IF n = 0 THEN screen ELSE AutoNextN(AutoNext(screen), n - 1)

Idle(span) ==
    LET cFirst == FirstFire(Sub(now, lastColonUpdate), COLON_FLASH_INTERVAL)
        cN == IF displayOn THEN Fires(cFirst, COLON_FLASH_INTERVAL, span) ELSE 0
        aFirst == FirstFire(Sub(now, lastPageSwitch), PAGE_SWITCH_INTERVAL)
        aN == IF autoSwitch THEN Fires(aFirst, PAGE_SWITCH_INTERVAL, span) ELSE 0
        cLast == cN > 0 /\ LastFire(cFirst, COLON_FLASH_INTERVAL, cN) = span - TickMs
        aLast == aN > 0 /\ LastFire(aFirst, PAGE_SWITCH_INTERVAL, aN) = span - TickMs
    IN  /\ pc' = "top"
        /\ now' = (now + span) % Wrap
        /\ colonVisible' = IF cN % 2 = 1 THEN ~colonVisible ELSE colonVisible
        /\ lastColonUpdate' =
              IF cN > 0
              THEN (now + LastFire(cFirst, COLON_FLASH_INTERVAL, cN)) % Wrap
              ELSE lastColonUpdate
        /\ currentScreen' = AutoNextN(currentScreen, aN % Cardinality(Screen))
        /\ lastPageSwitch' =
              IF aN > 0
              THEN (now + LastFire(aFirst, PAGE_SWITCH_INTERVAL, aN)) % Wrap
              ELSE lastPageSwitch
        /\ event' = "None"
        /\ draws' = (IF aLast THEN {"Full"} ELSE {}) \cup
                    (IF cLast /\ currentScreen' \in HeaderScreens
                     THEN {"PartialHeader"} ELSE {})
        /\ power' = "none"
        /\ fetched' = "none"
        /\ fired' = (IF aLast THEN {"auto"} ELSE {}) \cup
                    (IF cLast THEN {"blink"} ELSE {})
        /\ started' = (now + span - TickMs) % Wrap
        \* the buffer and the panel after the last page switch and the
        \* header pushes that followed it
        /\ LET g == IF aN > 0 THEN Render(Globals, currentScreen') ELSE Globals
               pushed == /\ cN > 0
                         /\ currentScreen' \in HeaderScreens
                         /\ \/ aN = 0
                            \/ LastFire(cFirst, COLON_FLASH_INTERVAL, cN)
                                  >= LastFire(aFirst, PAGE_SWITCH_INTERVAL, aN)
               h == IF pushed THEN PushHeader(g) ELSE g
           IN  sprite' = h.sprite /\ tft' = h.tft

\* a quiet period ends this long before the refresh is due
QuietLead == TickMs

\* milliseconds from now to the end of a quiet period
QuietSpan == UPDATE_INTERVAL - Sub(now, lastUpdate) - QuietLead

\* a quiet period: all buttons released, idle up to the iteration before
\* the one in which the refresh is due
QuietPeriod ==
    /\ pc = "top"
    /\ wifiUp /\ ~lvLeft /\ ~lvRight /\ ~lvSelect
    /\ ~selectHeld /\ ~longPressHandled
    /\ sel.phase \in {"idle", "done"}
    /\ Affordable(2)
    /\ QuietSpan >= TickMs
    /\ used' = used + 2
    /\ Idle(QuietSpan)
    /\ sel' = SelIdle
    /\ UNCHANGED << wifiUp, attempts, lvLeft, lvRight, lvSelect, settingsMode,
                    displayOn, autoSwitch, dataValid, lastUpdate, lastButtonPress,
                    selectPressStart, selectHeld, longPressHandled, held,
                    spent,
                    lastFetch,
                    args, ret, panelOn >>

\* milliseconds from now to the iteration in which the long press is due
HoldSpan == LONG_PRESS_TIME - Sub(now, selectPressStart)

\* a hold period: Select, sampled pressed, stays down and the other buttons
\* stay released, idle up to the iteration in which the long press is due
HoldPeriod ==
    /\ pc = "top"
    /\ wifiUp /\ ~lvLeft /\ ~lvRight /\ lvSelect
    /\ selectHeld
    /\ HoldSpan > TickMs
    /\ HoldSpan <= QuietSpan
    /\ Idle(HoldSpan)
    /\ UNCHANGED << wifiUp, attempts, lvLeft, lvRight, lvSelect, settingsMode,
                    displayOn, autoSwitch, dataValid, lastUpdate, lastButtonPress,
                    selectPressStart, selectHeld, longPressHandled, sel, held,
                    used, spent,
                    lastFetch,
                    args, ret, panelOn >>

----------------------------------------------------------------------------
(* The drawing functions called on their own: args holds the function and  *)
(* the inputs that are not globals of the loop, ret what the call did      *)
(* beyond writing the buffer and the panel.                                *)

\* what a call of a drawing function leaves alone
Undrawn == << now, pc, wifiUp, attempts, lvLeft, lvRight, lvSelect,
              currentScreen, settingsMode, displayOn, autoSwitch, colonVisible,
              dataValid, lastUpdate, lastButtonPress, lastPageSwitch,
              lastColonUpdate, selectPressStart, selectHeld, longPressHandled,
              event, draws, power, sel, held, used, spent, fired, started,
              lastFetch, fetched, args, panelOn >>

Hourly2Calls ==
    {[fn |-> "displayHourlyForecast2", hourlyCount |-> n] : n \in HourlyCounts}

CallDisplayHourlyForecast2 ==
    /\ args.fn = "displayHourlyForecast2" /\ ret.fn = "none"
    /\ LET g == DisplayHourlyForecast2(Globals, args.hourlyCount)
       IN  sprite' = g.sprite /\ tft' = g.tft
    /\ ret' = [fn |-> args.fn,
               reads |-> Hourly2Reads(dataValid, args.hourlyCount)]
    /\ UNCHANGED Undrawn

HourlyDirectCalls ==
    {[fn |-> "displayHourlyForecast", hourlyCount |-> n] : n \in HourlyCounts}

CallDisplayHourlyForecastDirect ==
    /\ args.fn = "displayHourlyForecast" /\ ret.fn = "none"
    /\ \E r \in DisplayHourlyForecastDirect(dataValid, args.hourlyCount) :
          /\ ret' = [fn |-> args.fn, outcome |-> r.outcome,
                     divisors |-> r.divisors, reads |-> r.reads]
          /\ tft' = r.panel
    /\ UNCHANGED sprite
    /\ UNCHANGED Undrawn

IconCalls ==
    {[fn |-> "drawWeatherIcon", code |-> c, isNight |-> n] :
        c \in 0..MaxCode, n \in BOOLEAN}

\* the icon goes to the buffer: part of a screen's layout
CallDrawWeatherIcon ==
    /\ args.fn = "drawWeatherIcon" /\ ret.fn = "none"
    /\ ret' = [fn |-> args.fn, cmds |-> DrawWeatherIcon(args.code, args.isNight)]
    /\ sprite' = sprite \cup {"Body"}
    /\ UNCHANGED tft
    /\ UNCHANGED Undrawn

\* `const char *dirs[]` of degToCompass()
Dirs == << "N", "NNE", "NE", "ENE", "E", "ESE", "SE", "SSE",
           "S", "SSW", "SW", "WSW", "W", "WNW", "NW", "NNW" >>

\* `int index = ((deg + 11) / 22) % 16` (deg is not negative, so the
\* division of C and \div agree)
CompassIndex(deg) == ((deg + 11) \div 22) % 16

\* degToCompass(deg): dirs[index]
DegToCompass(deg) == Dirs[CompassIndex(deg) + 1]

\* wind bearings of the weather service, in whole degrees
WindDegrees == 0..360

CompassCalls == {[fn |-> "degToCompass", deg |-> d] : d \in WindDegrees}

\* weather.windDir = degToCompass(weather.windDeg): nothing is drawn
CallDegToCompass ==
    /\ args.fn = "degToCompass" /\ ret.fn = "none"
    /\ ret' = [fn |-> args.fn, index |-> CompassIndex(args.deg),
               name |-> DegToCompass(args.deg)]
    /\ UNCHANGED << sprite, tft >>
    /\ UNCHANGED Undrawn

DrawCalls == Hourly2Calls \cup HourlyDirectCalls \cup IconCalls \cup CompassCalls

\* a drawing function is about to be called in the state setup() leaves
InitDraw ==
    /\ now = SetupDelay
    /\ InitCommon
    /\ autoSwitch = FALSE
    /\ args \in DrawCalls /\ ret = NoCall

NextDraw ==
    \/ CallDisplayHourlyForecast2
    \/ CallDisplayHourlyForecastDirect
    \/ CallDrawWeatherIcon
    \/ CallDegToCompass

SpecDraw == InitDraw /\ [][NextDraw]_vars

----------------------------------------------------------------------------
(* handleButtons() called with Left or Right pressed, DEBOUNCE_DELAY after *)
(* the call before, from any screen of either mode with the display on.    *)
(* args holds the screen and the mode at the start, ret the buttons each   *)
(* call sampled pressed, its event and the screen it led to.               *)

\* calls made in one run
MaxMoves == 3

NavStarts ==
    {[fn |-> "handleButtons", screen |-> s, settingsMode |-> m] :
        m \in BOOLEAN, s \in Screen}

InitNav ==
    /\ now = SetupDelay
    /\ InitGlobals
    /\ autoSwitch = FALSE
    /\ args \in {a \in NavStarts : a.screen \in ModeScreens(a.settingsMode)}
    /\ currentScreen = args.screen
    /\ settingsMode = args.settingsMode
    /\ LET g == Render([dataValid |-> dataValid, sprite |-> {}, tft |-> {}],
                       currentScreen)
       IN  sprite = g.sprite /\ tft = g.tft
    /\ ret = [fn |-> "handleButtons", pressed |-> << >>, events |-> << >>,
              screens |-> << currentScreen >>]

Press(leftPressed, rightPressed) ==
    /\ args.fn = "handleButtons" /\ Len(ret.events) < MaxMoves
    /\ LET t == (now + DEBOUNCE_DELAY) % Wrap
           g0 == [Globals EXCEPT !.event = "None", !.draws = {},
                                 !.power = "none", !.fired = {},
                                 !.fetched = "none"]
           g == HandleButtons(g0, t, leftPressed, rightPressed, FALSE)
       IN  /\ Store(g)
           /\ now' = t
           /\ ret' = [ret EXCEPT !.pressed =
                                    Append(@, << leftPressed, rightPressed >>),
                                 !.events = Append(@, g.event),
                                 !.screens = Append(@, g.currentScreen)]
    /\ lvLeft' = leftPressed /\ lvRight' = rightPressed
    /\ UNCHANGED << pc, wifiUp, attempts, lvSelect, autoSwitch, sel, held,
                    used, spent, started, lastFetch, args >>

PressedLeft == Press(TRUE, FALSE)

PressedRight == Press(FALSE, TRUE)

PressedBoth == Press(TRUE, TRUE)

NextNav ==
    \/ PressedLeft
    \/ PressedRight
    \/ PressedBoth

SpecNav == InitNav /\ [][NextNav]_vars

----------------------------------------------------------------------------

Next ==
    \/ PressSelect
    \/ ReleaseSelect
    \/ PressLeft
    \/ ReleaseLeft
    \/ PressRight
    \/ ReleaseRight
    \/ WiFiDrop
    \/ WiFiRestore
    \/ ConnectToWiFi
    \/ ReconnectWait
    \/ ReconnectDone
    \/ Iterate
    \/ FetchWait
    \/ FetchReturn
    \/ QuietPeriod
    \/ HoldPeriod

Spec == Init /\ [][Next]_vars

SpecAuto == InitAuto /\ [][Next]_vars

----------------------------------------------------------------------------
(* The loop across the wrap of millis().  The device has run for almost a  *)
(* whole period of the counter: loop() is about to start an iteration      *)
(* WrapLead before the counter returns to 0, on the Hourly screen with the *)
(* display on and no button down.  Every time stamp was taken less than    *)
(* one period of the counter ago: the last refresh so long ago that the    *)
(* next one is due RefreshLead after the wrap, the colon flash so that it  *)
(* is due in the iteration that starts at 0, the last button event one     *)
(* second ago.                                                             *)

WrapLead == 3 * TickMs

RefreshLead == TickMs

WrapStart == Wrap - WrapLead

InitWrap ==
    /\ now = WrapStart
    /\ pc = "top"
    /\ wifiUp = TRUE
    /\ attempts = 0
    /\ lvLeft = FALSE /\ lvRight = FALSE /\ lvSelect = FALSE
    /\ currentScreen = "SCREEN_HOURLY"
    /\ settingsMode = FALSE
    /\ displayOn = TRUE
    /\ autoSwitch = FALSE
    /\ colonVisible = TRUE
    /\ dataValid \in BOOLEAN          \* outcome of the last refresh
    /\ lastUpdate = Wrap + RefreshLead - UPDATE_INTERVAL
    /\ lastButtonPress = WrapStart - 5 * DEBOUNCE_DELAY
    /\ lastPageSwitch = 0             \* never marked: autoSwitch is false
    /\ lastColonUpdate = Wrap - COLON_FLASH_INTERVAL
    /\ selectPressStart = WrapStart - 5 * DEBOUNCE_DELAY - TickMs
    /\ selectHeld = FALSE
    /\ longPressHandled = FALSE
    /\ event = "None"
    /\ draws = {}
    /\ power = "none"
    /\ sel = SelIdle
    /\ held = HeldNone
    /\ used = 0
    /\ spent = 0
    /\ fired = {}
    /\ started = WrapStart - TickMs
    /\ lastFetch = Wrap + RefreshLead - UPDATE_INTERVAL - FetchSlice
    /\ fetched = "none"
    /\ panelOn = TRUE
    \* the last full repaint and the header pushes since
    /\ sprite = IF dataValid THEN {"Header", "Body"} ELSE {"NoData", "Header"}
    /\ tft = sprite
    /\ args = NoCall /\ ret = NoCall

SpecWrap == InitWrap /\ [][Next]_vars

----------------------------------------------------------------------------
(* Properties *)

\* C1: with the auto page switch disabled (the build as written), the
\* current screen is in every reachable state a screen of the current mode:
\* a weather screen in weather mode, a settings screen in settings mode.
C1_ScreenInModeSet == currentScreen \in ModeScreens(settingsMode)

\* navigation has moved through the screens of settings mode
C1_Witness ==
    /\ settingsMode
    /\ event \in {"Left", "Right"}
    /\ currentScreen \in {"SCREEN_DEMO", "SCREEN_DEMO2"}

\* C2: once a Select press that the loop sampled has been released and the
\* release sampled, exactly one of the short press and the long press has
\* fired for it.
C2_ExactlyOneSelectEvent ==
    (sel.phase = "done" /\ sel.sampled) => (sel.short + sel.long = 1)

\* C3: a Select press held for less than LONG_PRESS_TIME has, once its
\* release is sampled, fired exactly one short press and no long press.
C3_ShortPressOnly ==
    (sel.phase = "done" /\ sel.sampled /\ ~sel.longHold)
        => (sel.short = 1 /\ sel.long = 0)

\* C4: a Select press held for LONG_PRESS_TIME or more has, once its release
\* is sampled, fired exactly one long press and no short press.
C4_LongPressOnly ==
    (sel.phase = "done" /\ sel.sampled /\ sel.longHold)
        => (sel.long = 1 /\ sel.short = 0)

\* C5: one physical press of Left or Right, however long it is held,
\* produces at most one event (a navigation step or a wake).
C5_OneEventPerPress == \A b \in Buttons : held[b] <= 1

\* C6: a Left press first sampled less than DEBOUNCE_DELAY after an accepted
\* Left step is suppressed: it produces no event.
C6_SecondEdgeSuppressed == held.early => held.Left = 0

\* the cyclic orders the screens are to be stepped through
WeatherCycle ==
    << "SCREEN_HOURLY", "SCREEN_HOURLY2", "SCREEN_CONDITIONS", "SCREEN_DAILY" >>

SettingsCycle ==
    << "SCREEN_SETTINGS", "SCREEN_ABOUT", "SCREEN_DEMO", "SCREEN_DEMO2",
       "SCREEN_DEMO3" >>

CycleOf(settings) == IF settings THEN SettingsCycle ELSE WeatherCycle

\* the screen k steps forward of `screen` in the cycle of its mode
Stepped(screen, settings, k) ==
    LET cyc == CycleOf(settings)
        i == CHOOSE n \in 1..Len(cyc) : cyc[n] = screen
    IN  cyc[((i - 1 + k) % Len(cyc)) + 1]

RECURSIVE LeftTimes(_, _, _)
LeftTimes(screen, settings, n) ==
    IF n = 0 THEN screen ELSE LeftTimes(NextLeft(screen, settings), settings, n - 1)

RECURSIVE RightTimes(_, _, _)
RightTimes(screen, settings, n) ==
    IF n = 0 THEN screen ELSE RightTimes(NextRight(screen, settings), settings, n - 1)

\* four presses in one direction return to every weather screen, five to
\* every settings screen
CycleReturns ==
    /\ \A w \in WeatherScreens :
          LeftTimes(w, FALSE, 4) = w /\ RightTimes(w, FALSE, 4) = w
    /\ \A x \in SettingsScreens :
          LeftTimes(x, TRUE, 5) = x /\ RightTimes(x, TRUE, 5) = x

C8_LongPressTogglesMode ==
    [][ (event' = "LongPress" /\ Iterate) =>
          /\ lvSelect
          /\ settingsMode' = ~settingsMode
          /\ currentScreen' = (IF settingsMode THEN "SCREEN_HOURLY"
                                               ELSE "SCREEN_SETTINGS")
          /\ "Full" \in draws'
          /\ displayOn' = displayOn ]_vars

\* a second long press has come back from settings mode to the hourly screen
C8_Witness ==
    /\ event = "LongPress"
    /\ ~settingsMode /\ currentScreen = "SCREEN_HOURLY"
    /\ "Full" \in draws

\* C9: an iteration in which the Select short press fires toggles displayOn.
\* Turning off leaves screen and mode as they were and the whole iteration,
\* a refresh it makes included, draws nothing; turning on sets weather mode
\* and the hourly screen, whatever they were, with a full repaint.
C9_ShortPressTogglesDisplay ==
    [][ /\ (event' = "ShortPress" /\ Iterate) =>
             /\ ~lvSelect
             /\ displayOn' = ~displayOn
             /\ displayOn =>
                   /\ currentScreen' = currentScreen
                   /\ settingsMode' = settingsMode
                   /\ draws' = {}
                   /\ power' = "0x28"
             /\ ~displayOn =>
                   /\ currentScreen' = "SCREEN_HOURLY"
                   /\ ~settingsMode'
                   /\ "Full" \in draws'
                   /\ power' = "0x29"
        /\ (event = "ShortPress" /\ FetchReturn) =>
             /\ UNCHANGED << currentScreen, settingsMode, displayOn >>
             /\ ~displayOn => draws' = {}
             /\ displayOn => "Full" \in draws' ]_vars

\* a short press has turned the display off in the iteration that also made
\* the refresh
C9_Witness ==
    /\ event = "ShortPress"
    /\ ~displayOn
    /\ draws = {}
    /\ lastUpdate # SetupDelay
    /\ Sub(now, lastUpdate) = TickMs

\* C10: an iteration that accepts Left or Right while the display is off
\* ends with the display on, in weather mode, on the hourly screen, with a
\* full repaint; the press does not navigate.
C10_WakeResets ==
    [][ /\ (~displayOn /\ event' \notin {"LongPress", "ShortPress", "None"} /\ Iterate) =>
             /\ event' = "Wake"
             /\ lvLeft \/ lvRight
             /\ displayOn'
             /\ ~settingsMode'
             /\ currentScreen' = "SCREEN_HOURLY"
             /\ "Full" \in draws'
        /\ (event = "Wake" /\ FetchReturn) =>
             /\ UNCHANGED << currentScreen, settingsMode, displayOn >>
             /\ "Full" \in draws' ]_vars

\* Left or Right has turned the display on
C10_Witness ==
    /\ event = "Wake"
    /\ displayOn
    /\ currentScreen = "SCREEN_HOURLY" /\ ~settingsMode
    /\ "Full" \in draws

\* C11: in an iteration that samples Left or Right pressed while the Select
\* long press is due (Select down, tracked, for LONG_PRESS_TIME or more) or
\* the Select short press is due (Select released, tracked, for less than
\* LONG_PRESS_TIME), only the Select transition is applied: the long press
\* toggles the mode and shows the first screen of the new mode, the short
\* press toggles displayOn, and no Left / Right event is produced.
C11_SelectTakesPriority ==
    [][ ((lvLeft \/ lvRight) /\ selectHeld /\ Iterate) =>
          /\ (lvSelect /\ Sub(now, selectPressStart) >= LONG_PRESS_TIME) =>
                /\ event' = "LongPress"
                /\ settingsMode' = ~settingsMode
                /\ currentScreen' = (IF settingsMode THEN "SCREEN_HOURLY"
                                                     ELSE "SCREEN_SETTINGS")
                /\ displayOn' = displayOn
                /\ held'.Left = held.Left /\ held'.Right = held.Right
          /\ (~lvSelect /\ Sub(now, selectPressStart) < LONG_PRESS_TIME) =>
                /\ event' = "ShortPress"
                /\ displayOn' = ~displayOn
                /\ displayOn =>
                      currentScreen' = currentScreen /\ settingsMode' = settingsMode
                /\ ~displayOn =>
                      currentScreen' = "SCREEN_HOURLY" /\ ~settingsMode'
                /\ held'.Left = held.Left /\ held'.Right = held.Right ]_vars

\* the long press has fired in an iteration that sampled Left pressed
C11_Witness ==
    /\ event = "LongPress"
    /\ lvLeft /\ held.seen
    /\ started = Sub(now, TickMs)

\* C12: no iteration applies more than one transition of screen, mode and
\* displayOn: the auto page switch never fires in an iteration in which
\* handleButtons() produced an event (long press, short press, Left, Right
\* or wake).
C12_OneTransitionPerTick ==
    [][ ("auto" \in fired' /\ Iterate) =>
          event' \notin {"LongPress", "ShortPress", "Left", "Right", "Wake"} ]_vars

\* C13: an iteration in which the auto page switch fires (and handleButtons()
\* produced no event) moves the screen as an accepted Left press would from
\* the same screen and mode: to the next screen of the current mode's cycle,
\* with the mode unchanged, a full repaint, and lastPageSwitch set to the
\* time of the iteration.
C13_AutoAdvanceAsLeft ==
    [][ (event' = "None" /\ "auto" \in fired' /\ Iterate) =>
          /\ currentScreen' = NextLeft(currentScreen, settingsMode)
          /\ currentScreen' \in ModeScreens(settingsMode)
          /\ settingsMode' = settingsMode
          /\ "Full" \in draws'
          /\ lastPageSwitch' = now ]_vars

\* a step in which an iteration of loop() runs to the end of its delay(50)
IterationEnds == pc' = "top" /\ now' # now /\ (Iterate \/ FetchReturn)

C15_BlinkOnlyAlone ==
    [][ IterationEnds =>
          ~(/\ "PartialHeader" \in draws'
            /\ \/ event' \in {"LongPress", "ShortPress", "Left", "Right", "Wake"}
               \/ "auto" \in fired') ]_vars

\* C16: in every iteration that reaches the colon flash with
\* COLON_FLASH_INTERVAL or more passed since lastColonUpdate, colonVisible is
\* toggled once and lastColonUpdate is set to the time of the check, whatever
\* the screen and the mode and whether the display is on or off; in every
\* other iteration both are left alone.
C16_BlinkEveryDue ==
    [][ IterationEnds =>
          IF Sub(now, lastColonUpdate) >= COLON_FLASH_INTERVAL
          THEN colonVisible' = ~colonVisible /\ lastColonUpdate' = now
          ELSE UNCHANGED << colonVisible, lastColonUpdate >> ]_vars

\* C17: an iteration calls fetchOneCallData() exactly if UPDATE_INTERVAL or
\* more has passed since lastUpdate, however late the iteration comes; the
\* call is made UPDATE_INTERVAL or more after the call before it; lastUpdate
\* is left alone while the fetch runs and is set to the time the fetch has
\* returned and been acted on; and the iteration that follows a refresh is
\* not due again.
C17_RefreshWhenDue ==
    [][ /\ (started' # started /\ Iterate) =>
             /\ (lastFetch' # lastFetch) <=>
                   (Sub(now, lastUpdate) >= UPDATE_INTERVAL)
             /\ (lastFetch' # lastFetch) =>
                   /\ lastFetch' = now
                   /\ Sub(now, lastFetch) >= UPDATE_INTERVAL
             /\ pc' = "fetch" =>
                   /\ lastFetch' = now
                   /\ lastUpdate' = lastUpdate
                   /\ "refresh" \notin fired'
             /\ pc' = "top" =>
                   ("refresh" \in fired' <=> lastFetch' # lastFetch)
        /\ (pc = "fetch" /\ FetchReturn) =>
             /\ lastFetch' = lastFetch
             /\ lastUpdate' = now
             /\ "refresh" \in fired'
        /\ ("refresh" \in fired' /\ (Iterate \/ FetchReturn)) =>
             Sub(now', lastUpdate') < UPDATE_INTERVAL ]_vars

\* a refresh found due by an iteration that came late, after a reconnect,
\* has been made once and lastUpdate marked
C17_Witness ==
    /\ pc = "top" /\ "refresh" \in fired
    /\ Sub(lastFetch, SetupDelay) > UPDATE_INTERVAL
    /\ lastFetch = started
    /\ Sub(now, lastUpdate) = TickMs

\* C18: when the fetch of a refresh returns, screen, mode and displayOn stay
\* as they are; with the display on the current screen is repainted in
\* full, in either mode; with the display off nothing is drawn, and the
\* buffer and the panel are left as they were.
C18_RefreshRepaintsIfOn ==
    [][ (pc = "fetch" /\ FetchReturn) =>
          /\ "refresh" \in fired'
          /\ UNCHANGED << currentScreen, settingsMode, displayOn >>
          /\ displayOn => "Full" \in draws'
          /\ ~displayOn =>
                /\ draws' = draws
                /\ UNCHANGED << sprite, tft >> ]_vars

\* a refresh has repainted a settings screen; handleButtons() had drawn
\* nothing in that iteration
C18_Witness ==
    /\ pc = "top" /\ "refresh" \in fired
    /\ event = "None"
    /\ settingsMode /\ currentScreen = "SCREEN_SETTINGS"
    /\ displayOn /\ "Full" \in draws

\* C19: every check of one iteration uses the time at which the iteration
\* sampled the buttons, also when the fetch blocks in it: the colon flash
\* fires exactly if the display is on and COLON_FLASH_INTERVAL or more had
\* passed at that time, and every timer the iteration marks (debounce, page
\* switch, colon flash) is marked with that time.
C19_SameNowSample ==
    [][ IterationEnds =>
          /\ "blink" \in fired' <=>
                (displayOn' /\ Sub(started', lastColonUpdate) >= COLON_FLASH_INTERVAL)
          /\ "blink" \in fired' => lastColonUpdate' = started'
          /\ "auto" \in fired' => lastPageSwitch' = started'
          /\ event' \in {"LongPress", "ShortPress", "Left", "Right", "Wake"} =>
                lastButtonPress' = started' ]_vars

\* C20: at the end of an iteration that repainted a weather screen in full
\* while the snapshot was not valid, the buffer has been pushed and the
\* panel shows the "no data" message and nothing else: no header and nothing
\* of the screen's layout.
C20_NoDataPlaceholder ==
    [][ (/\ "Full" \in draws'
         /\ currentScreen' \in {"SCREEN_HOURLY", "SCREEN_HOURLY2",
                                 "SCREEN_CONDITIONS", "SCREEN_DAILY"}
         /\ ~dataValid'
         /\ IterationEnds) =>
          (tft' = sprite' /\ tft' = {"NoData"}) ]_vars

\* C21: an iteration in which nothing but the colon flash fired and the
\* header was redrawn and pushed leaves everything the panel shows outside
\* the header (layout, "no data" message, status lines) as it was before
\* the push.
C21_BlinkFlushesHeaderOnly ==
    [][ (/\ "PartialHeader" \in draws'
         /\ event' = "None" /\ fired' = {"blink"}
         /\ IterationEnds) =>
          (tft' \ {"Header"} = tft \ {"Header"}) ]_vars

\* C22: the display output of the panel is on exactly when displayOn is
\* true, in every state; a call of handleButtons() sends the command 0x29
\* exactly if it changes displayOn from false to true and the command 0x28
\* exactly if it changes it from true to false, by Select or by Left /
\* Right, and nothing else in the iteration changes displayOn or sends a
\* command.
C22_PowerFollowsDisplayOn ==
    /\ [](panelOn = displayOn)
    /\ [][ /\ (started' # started /\ Iterate) =>
                /\ power' \in {"none", "0x28", "0x29"}
                /\ (power' = "0x29") <=> (~displayOn /\ displayOn')
                /\ (power' = "0x28") <=> (displayOn /\ ~displayOn')
           /\ (pc = "fetch" /\ FetchReturn) =>
                UNCHANGED << displayOn, power, panelOn >> ]_vars

\* Left or Right has turned on a display that a short press had turned off
C22_Witness ==
    /\ event = "Wake" /\ power = "0x29"
    /\ displayOn /\ panelOn
    /\ lvLeft /\ held.Left = 1

\* the ways a call of fetchOneCallData() fails
FetchFailures == {"NoWiFi", "ParseError", "HttpError"}

C27_HourlyDirectNoCrash ==
    ret.fn = "displayHourlyForecast" =>
        /\ ret.outcome # "crash"
        /\ (dataValid /\ args.hourlyCount \in 1..24) =>
              /\ 0 \notin ret.divisors
              /\ \A i \in ret.reads : i < args.hourlyCount
        /\ (~dataValid \/ args.hourlyCount = 0) =>
              ret.outcome = "placeholder"

\* the bands of weather codes, by the composition each is to select
IconBands ==
    [clear |-> {800}, few |-> {801}, cloudy |-> 802..803, overcast |-> {804},
     rain |-> 500..531, storm |-> 200..232, snow |-> 600..622,
     atmosphere |-> 701..781]

\* the colour of the part that tells the compositions apart
Overlay(band) ==
    CASE band = "clear" -> {"COLOR_SUN", "COLOR_MOON"}
      [] band = "few" -> {"COLOR_SUN", "COLOR_MOON"}
      [] band = "cloudy" -> {"COLOR_CLOUD"}
      [] band = "overcast" -> {"COLOR_OVERCAST"}
      [] band = "rain" -> {"COLOR_RAIN"}
      [] band = "storm" -> {"COLOR_BOLT"}
      [] band = "snow" -> {"COLOR_SNOW"}
      [] band = "atmosphere" -> {"mistLight"}
      [] OTHER -> {"COLOR_CLOUD"}

Colours(cmds) == {cmds[i][2] : i \in 1..Len(cmds)}

\* C28: the commands drawWeatherIcon() emits differ between isNight true
\* and false for the codes 800 and 801 and for no other code; the bands of
\* codes are pairwise disjoint, and every code draws the composition of the
\* one band it lies in, or the generic cloud when it lies in none.
C28_NightOnlyClearAndFew ==
    ret.fn = "drawWeatherIcon" =>
        LET other == DrawWeatherIcon(args.code, ~args.isNight)
            mine == {b \in DOMAIN IconBands : args.code \in IconBands[b]}
        IN  /\ (ret.cmds # other) <=> (args.code \in {800, 801})
            /\ Cardinality(mine) <= 1
            /\ \A b \in mine : Overlay(b) \cap Colours(ret.cmds) # {}
            /\ mine = {} =>
                  /\ Len(ret.cmds) = 4
                  /\ Colours(ret.cmds) =
                        {"COLOR_CLOUD_DARK", "COLOR_CLOUD_MID", "COLOR_CLOUD"}
            /\ \A b \in DOMAIN IconBands \ mine :
                  b \notin {"cloudy", "clear", "few"} =>
                     Overlay(b) \cap Colours(ret.cmds) = {}

\* the icon of a cloudy night (802) has been drawn, without a moon
C28_Witness ==
    /\ ret.fn = "drawWeatherIcon"
    /\ args.code = 802 /\ args.isNight
    /\ Len(ret.cmds) = 8
    /\ "COLOR_MOON" \notin Colours(ret.cmds)

\* C25: the debounce window is kept per button: with the display on, an
\* iteration that samples a new Left press, and in which no Select event
\* takes priority, accepts it as a Left step although the iteration before
\* accepted a Right step (the last accepted Left event, if any, then lies
\* two iterations or more back: DEBOUNCE_DELAY or more).
C25_DebouncePerControl ==
    [][ (/\ event = "Right"
         /\ lvLeft /\ ~held.seen
         /\ displayOn
         /\ event' \notin {"LongPress", "ShortPress"}
         /\ started' # started
         /\ Iterate) =>
          event' = "Left" ]_vars

\* the weather screens the README lists
ReadmeWeatherScreens == {"SCREEN_HOURLY", "SCREEN_CONDITIONS", "SCREEN_DAILY"}

\* C26: weather mode has the three screens Hourly, Conditions, Daily: after
\* an accepted Left or Right step in weather mode the screen is one of the
\* three, and three more steps in one direction lead back to it; settings
\* mode has five screens.
C26_ThreeWeatherScreens ==
    /\ (~settingsMode /\ event \in {"Left", "Right"}) =>
          /\ currentScreen \in ReadmeWeatherScreens
          /\ LeftTimes(currentScreen, FALSE, 3) = currentScreen
          /\ RightTimes(currentScreen, FALSE, 3) = currentScreen
    /\ settingsMode =>
          /\ currentScreen \in SettingsScreens
          /\ Cardinality(SettingsScreens) = 5

Opposite(a, b) ==
    \/ a = "Left" /\ b = "Right"
    \/ a = "Right" /\ b = "Left"

\* C29: from every screen of either mode, with the display on, an accepted
\* Left step followed by an accepted Right step, or Right followed by Left,
\* leads back to the screen it started from, in the same mode, with the
\* display still on.
C29_LeftRightInverse ==
    ret.fn = "handleButtons" =>
        /\ settingsMode = args.settingsMode
        /\ displayOn
        /\ \A i \in 1..Len(ret.events) : ret.events[i] \in {"Left", "Right"}
        /\ \A i \in 1..(Len(ret.events) - 1) :
              Opposite(ret.events[i], ret.events[i + 1]) =>
                 /\ ret.screens[i + 2] = ret.screens[i]
                 /\ ret.screens[i + 1] # ret.screens[i]

\* Left from the last weather screen has wrapped to the first, and Right
\* has come back
C29_Witness ==
    /\ ret.fn = "handleButtons"
    /\ args.screen = "SCREEN_DAILY"
    /\ ret.events = << "Left", "Right" >>
    /\ ret.screens = << "SCREEN_DAILY", "SCREEN_HOURLY", "SCREEN_DAILY" >>
    /\ currentScreen = "SCREEN_DAILY" /\ ~settingsMode

\* C30: a call of handleButtons() that samples Left and Right both pressed,
\* with the display on, the debounce window over and no Select event due,
\* takes exactly one navigation step, the Left one: the screen moves one
\* step forward in the cycle of its mode, neither two steps nor none.
C30_BothPressedStepsLeft ==
    ret.fn = "handleButtons" =>
        \A i \in 1..Len(ret.pressed) :
            ret.pressed[i] = << TRUE, TRUE >> =>
               /\ ret.events[i] = "Left"
               /\ ret.screens[i + 1] = Stepped(ret.screens[i], args.settingsMode, 1)
               /\ ret.screens[i + 1] # ret.screens[i]
               /\ ret.screens[i + 1] # Stepped(ret.screens[i], args.settingsMode, 2)

\* with both buttons down, the last settings screen has stepped forward to
\* the first
C30_Witness ==
    /\ ret.fn = "handleButtons"
    /\ args.screen = "SCREEN_DEMO3"
    /\ ret.pressed = << << TRUE, TRUE >> >>
    /\ lvLeft /\ lvRight
    /\ event = "Left"
    /\ currentScreen = "SCREEN_SETTINGS" /\ settingsMode
    /\ "Full" \in draws

\* C31 as first stated: with the display off, an iteration that samples Left
\* or Right pressed DEBOUNCE_DELAY or more after the last accepted button
\* event ends with the display on.
C31_WakeWhenWindowOver ==
    [][ (/\ ~displayOn
         /\ lvLeft \/ lvRight
         /\ Sub(now, lastButtonPress) >= DEBOUNCE_DELAY
         /\ started' # started
         /\ Iterate) =>
          displayOn' ]_vars

\* C31: with the display off, an iteration that samples Left or Right
\* pressed DEBOUNCE_DELAY or more after the last accepted button event ends
\* with the display on (by the wake, or by a Select short press due in it),
\* unless the Select long press fires in it; the long press is then the last
\* accepted event, the display stays off, and the window starts again.
C31_WakeUnlessLongPress ==
    [][ (/\ ~displayOn
         /\ lvLeft \/ lvRight
         /\ Sub(now, lastButtonPress) >= DEBOUNCE_DELAY
         /\ started' # started
         /\ Iterate) =>
          IF event' = "LongPress"
          THEN ~displayOn' /\ lastButtonPress' = now
          ELSE /\ displayOn' /\ power' = "0x29"
               /\ event' \in {"Wake", "ShortPress"}
               /\ lastButtonPress' = now ]_vars

\* Left, held through a long press that fired with the display off, has
\* turned the display on DEBOUNCE_DELAY after the long press
C31_Witness ==
    /\ event = "Wake" /\ displayOn
    /\ lvLeft /\ lvSelect /\ longPressHandled
    /\ Sub(started, lastButtonPress) = 0

\* C32: an iteration that starts and ends with the display off draws
\* nothing and leaves the panel as it was: no full repaint (not by the
\* Select long press, not by the auto page switch) and no header push.
C32_NothingDrawnWhileOff ==
    [][ (/\ ~displayOn /\ ~displayOn'
         /\ started' # started
         /\ Iterate) =>
          (draws' = {} /\ tft' = tft) ]_vars

\* the time a value of millis() stands for in a run that starts less than
\* half a period of the counter before its wrap and ends less than half a
\* period after it: a value of the lower half was read after the wrap
Unwrapped(t) == IF t < Wrap \div 2 THEN t + Wrap ELSE t

\* the time that has truly passed from `last` to t
Elapsed(t, last) == Unwrapped(t) - Unwrapped(last)

C34_VariantsAgree ==
    [][ (/\ pc' = "top"
         /\ started' # started
         /\ Iterate) =>
          LET d == LoopDirect
          IN  /\ d.currentScreen = currentScreen'
              /\ d.settingsMode = settingsMode'
              /\ d.displayOn = displayOn'
              /\ d.colonVisible = colonVisible'
              /\ d.draws = draws' ]_vars

\* C35: a reconnection attempt writes neither the buffer nor the panel, from
\* its entry to its return; and the panel after a header-only push shows
\* nothing of the reconnection's status lines.
C35_ReconnectLeavesSurfaces ==
    [][ /\ (pc \in {"top", "wifi"} /\ (ConnectToWiFi \/ ReconnectWait \/ ReconnectDone)) =>
             UNCHANGED << sprite, tft >>
        /\ ("PartialHeader" \in draws' /\ IterationEnds) =>
             "ConnectText" \notin tft' ]_vars

\* presses of Left that lead from screen `from` to screen `to`, n at most
RECURSIVE LeftSteps(_, _, _, _)
LeftSteps(from, to, settings, n) ==
    IF from = to \/ n = 0
    THEN 0
    ELSE 1 + LeftSteps(NextLeft(from, settings), to, settings, n - 1)

\* position of a screen in the cyclic order of its mode, counted from the
\* screen a long press enters the mode on
CyclePosition(screen, settings) ==
    LeftSteps(LongPressScreen(settings), screen, settings,
              Cardinality(ModeScreens(settings)))

\* C36: whenever an iteration has repainted the current screen in full with
\* its layout, the indicator drawn has 4 dots in Weather mode and 5 in
\* Settings mode, and the filled dot, the only one, is the dot at the
\* position of the current screen in the cyclic order of its mode.
C36_IndicatorMarksScreen ==
    ("Full" \in draws /\ "Body" \in sprite) =>
        LET dots == DrawScreenIndicator(currentScreen, settingsMode)
        IN  /\ DOMAIN dots = 0..((IF currentScreen \in SettingsScreens THEN 5 ELSE 4) - 1)
            /\ {i \in DOMAIN dots : dots[i] = "fillCircle"} =
                  {CyclePosition(currentScreen, currentScreen \in SettingsScreens)}
            /\ \A i \in DOMAIN dots : dots[i] \in {"fillCircle", "drawCircle"}

\* the last settings screen has been repainted after a step from the first
C36_Witness ==
    /\ "Full" \in draws /\ "Body" \in sprite
    /\ event = "Right"
    /\ settingsMode /\ currentScreen = "SCREEN_DEMO3"
    /\ DrawScreenIndicator(currentScreen, settingsMode)[4] = "fillCircle"

\* C37: for every bearing deg of 0..360 degToCompass() computes a table
\* index of 0..15 and returns the name of the 22.5-degree sector that
\* contains deg: the name at index floor((4 * deg + 45) / 90) mod 16.
C37_CompassSector ==
    ret.fn = "degToCompass" =>
        /\ ret.index \in 0..15
        /\ ret.name = Dirs[(((4 * args.deg + 45) \div 90) % 16) + 1]

====
